---- MODULE Spec2Model ----
(***************************************************************************)
(* Model of the command / switch-set resolver of cidr-calculator-cli       *)
(* (src/src/command.ts) and of the CIDR command that uses it               *)
(* (src/src/usage.ts, src/src/index.ts).                                   *)
(*                                                                         *)
(* A JavaScript string is a sequence of one-character strings, so that     *)
(* trim(), toLowerCase(), sort() and the regular expressions are computed  *)
(* on the characters.  An optional value (T | undefined) is a sequence of  *)
(* length 0 or 1.  CommandArg objects live in a heap (a sequence of        *)
(* records); a reference to a CommandArg is its index, 0 is undefined.     *)
(* The description and valuePatternText fields are display-only text that  *)
(* the resolver copies and never reads; they are left out.                 *)
(***************************************************************************)
EXTENDS Integers, Sequences, FiniteSets, TLC

(***************************************************************************)
(* Bounds                                                                  *)
(***************************************************************************)
\* largest number of tokens that follow the command name in one argv
MaxArgs == 4

\* largest number of commands a registry under construction holds
MaxCommands == 2

\* largest number of CommandArg objects built for a registry under
\* construction
MaxNodes == 3

(***************************************************************************)
(* Characters and strings                                                  *)
(***************************************************************************)
\* the characters used, in UTF-16 code unit order (sort() compares code units)
CodeUnits ==
  <<"\t", "\n", " ", "-", ".", "/",
    "0", "1", "2", "3", "4", "5", "6", "7", "8", "9", "=",
    "A", "B", "C", "D", "E", "F", "G", "H", "I", "J", "K", "L", "M",
    "N", "O", "P", "Q", "R", "S", "T", "U", "V", "W", "X", "Y", "Z",
    "a", "b", "c", "d", "e", "f", "g", "h", "i", "j", "k", "l", "m",
    "n", "o", "p", "q", "r", "s", "t", "u", "v", "w", "x", "y", "z">>

charCodeAt(c) == CHOOSE i \in 1..Len(CodeUnits) : CodeUnits[i] = c

Digit == {"0", "1", "2", "3", "4", "5", "6", "7", "8", "9"}

UpperCase == {CodeUnits[i] : i \in 18..43}

LowerCase == {CodeUnits[i] : i \in 44..69}

Letter == UpperCase \cup LowerCase

WhiteSpace == {"\t", "\n", " "}

LineTerminator == {"\n"}

EmptyStr == <<>>

\* String.prototype.toLowerCase
toLowerCase(s) ==
  [i \in 1..Len(s) |->
     IF s[i] \in UpperCase THEN CodeUnits[charCodeAt(s[i]) + 26] ELSE s[i]]

\* String.prototype.trim
trim(s) ==
  LET nonWs == {i \in 1..Len(s) : s[i] \notin WhiteSpace}
      first == CHOOSE i \in nonWs : \A j \in nonWs : i <= j
      last  == CHOOSE i \in nonWs : \A j \in nonWs : j <= i
  IN IF nonWs = {} THEN EmptyStr ELSE SubSeq(s, first, last)

\* a < b in the order Array.prototype.sort() uses by default
RECURSIVE StrLess(_, _)
StrLess(a, b) ==
  IF b = <<>> THEN FALSE
  ELSE IF a = <<>> THEN TRUE
  ELSE IF a[1] # b[1] THEN charCodeAt(a[1]) < charCodeAt(b[1])
  ELSE StrLess(Tail(a), Tail(b))

\* Array.prototype.sort() with the default comparison
RECURSIVE sort(_)
sort(xs) ==
  IF xs = <<>> THEN <<>>
  ELSE LET m == CHOOSE i \in 1..Len(xs) :
                  /\ \A j \in 1..Len(xs) : ~StrLess(xs[j], xs[i])
                  /\ \A j \in 1..(i - 1) : StrLess(xs[i], xs[j])
       IN <<xs[m]>> \o sort(SubSeq(xs, 1, m - 1) \o SubSeq(xs, m + 1, Len(xs)))

\* String.prototype.split for a one-character separator
RECURSIVE split(_, _)
split(s, sep) ==
  LET at == {i \in 1..Len(s) : s[i] = sep}
      p  == CHOOSE i \in at : \A j \in at : i <= j
  IN IF at = {} THEN <<s>>
     ELSE <<SubSeq(s, 1, p - 1)>> \o split(SubSeq(s, p + 1, Len(s)), sep)

(***************************************************************************)
(* Regular expressions                                                     *)
(***************************************************************************)
\* switchTest = /^[\-]{1,2}[a-zA-Z]{1}[a-zA-Z0-9\-]{0,}/  (no $: a prefix test)
switchTest(s) ==
  /\ Len(s) >= 2
  /\ s[1] = "-"
  /\ \/ s[2] \in Letter
     \/ /\ s[2] = "-"
        /\ Len(s) >= 3
        /\ s[3] \in Letter

\* cmdTest = /^[a-zA-Z0-9]{1,}$/
cmdTest(s) ==
  /\ Len(s) >= 1
  /\ \A i \in 1..Len(s) : s[i] \in Letter \cup Digit

\* \d{m,n} over a whole string
Digits(s, m, n) ==
  /\ Len(s) >= m
  /\ Len(s) <= n
  /\ \A i \in 1..Len(s) : s[i] \in Digit

\* the value patterns the repository uses; a RegExp is its source text and
\* its global flag, the lastIndex it carries is a field of the owning node
RegExpAny == [source |-> ".*", global |-> FALSE]

RegExpAnyGI == [source |-> ".*", global |-> TRUE]

RegExpCIDR == [source |-> "^(\\d{1,3})\\.(\\d{1,3})\\.(\\d{1,3})\\.(\\d{1,3})\\/[0-9]{1,2}$", global |-> FALSE]

RegExpIP == [source |-> "^(\\d{1,3})\\.(\\d{1,3})\\.(\\d{1,3})\\.(\\d{1,3})$", global |-> FALSE]

RegExpCB == [source |-> "^[0-9]{1,2}$", global |-> FALSE]

MatchIP(s) ==
  LET parts == split(s, ".")
  IN /\ Len(parts) = 4
     /\ \A i \in 1..4 : Digits(parts[i], 1, 3)

MatchCIDR(s) ==
  LET parts == split(s, "/")
  IN /\ Len(parts) = 2
     /\ MatchIP(parts[1])
     /\ Digits(parts[2], 1, 2)

MatchCB(s) == Digits(s, 1, 2)

\* end of the match of .* that starts at 0-based index from
DotStarEnd(s, from) ==
  LET lt == {i \in (from + 1)..Len(s) : s[i] \in LineTerminator}
  IN IF lt = {} THEN Len(s)
     ELSE (CHOOSE i \in lt : \A j \in lt : i <= j) - 1

\* RegExp.prototype.test: the result and the lastIndex it leaves behind
RegExpTest(re, lastIndex, s) ==
  IF re.source = ".*"
  THEN IF re.global
       THEN IF lastIndex > Len(s)
            THEN [ok |-> FALSE, lastIndex |-> 0]
            ELSE [ok |-> TRUE, lastIndex |-> DotStarEnd(s, lastIndex)]
       ELSE [ok |-> TRUE, lastIndex |-> lastIndex]
  ELSE [ok |-> IF re = RegExpCIDR THEN MatchCIDR(s)
               ELSE IF re = RegExpIP THEN MatchIP(s)
               ELSE MatchCB(s),
        lastIndex |-> lastIndex]

(***************************************************************************)
(* Schema construction: CommandImpl and CommandArgImpl                     *)
(***************************************************************************)
\* the error codes of AppError used by command.ts
PARAM_MISSING == "PARAM_MISSING"

PARAM_INVALID == "PARAM_INVALID"

CMDARG_NOKEY == "CMDARG_NOKEY"

\* a variant of CommandImpl that keeps the name as it was written
CommandImplAsWritten(command) ==
  LET c == trim(command)
  IN IF c = EmptyStr
     THEN [err |-> PARAM_MISSING, cmd |-> [command |-> EmptyStr, args |-> <<>>]]
     ELSE IF ~cmdTest(c)
     THEN [err |-> PARAM_INVALID, cmd |-> [command |-> EmptyStr, args |-> <<>>]]
     ELSE [err |-> "", cmd |-> [command |-> c, args |-> <<>>]]

\* new CommandImpl(command, desc): the object built, or the error thrown
CommandImpl(command) ==
  LET c == trim(command)
  IN IF c = EmptyStr
     THEN [err |-> PARAM_MISSING, cmd |-> [command |-> EmptyStr, args |-> <<>>]]
     ELSE IF ~cmdTest(c)
     THEN [err |-> PARAM_INVALID, cmd |-> [command |-> EmptyStr, args |-> <<>>]]
     ELSE [err |-> "", cmd |-> [command |-> toLowerCase(c), args |-> <<>>]]

\* argSwitches.filter((val, index, switches) => switches.indexOf(val) === index)
RECURSIVE uniqueFrom(_, _)
uniqueFrom(xs, i) ==
  IF i > Len(xs) THEN <<>>
  ELSE IF \A j \in 1..(i - 1) : xs[j] # xs[i]
  THEN <<xs[i]>> \o uniqueFrom(xs, i + 1)
  ELSE uniqueFrom(xs, i + 1)

unique(xs) == uniqueFrom(xs, 1)

NoCommandArg ==
  [name |-> "", switches |-> <<>>, valuePatternRegEx |-> RegExpAnyGI,
   lastIndex |-> 0, value |-> EmptyStr, nextCommandArg |-> 0]

\* a variant of CommandArgImpl that keeps repeated spellings
CommandArgImplRepeating(name, switches, valuePatternRegEx, defaultVal) ==
  LET trimmed == [i \in 1..Len(switches) |-> trim(switches[i])]
      sorted  == sort(trimmed)
  IN IF Len(switches) < 1
     THEN [err |-> PARAM_MISSING, arg |-> NoCommandArg]
     ELSE IF \E i \in 1..Len(trimmed) : trimmed[i] = EmptyStr
     THEN [err |-> PARAM_INVALID, arg |-> NoCommandArg]
     ELSE IF \E i \in 1..Len(sorted) : ~switchTest(sorted[i])
     THEN [err |-> PARAM_INVALID, arg |-> NoCommandArg]
     ELSE [err |-> "",
           arg |-> [name |-> name,
                    switches |-> sorted,
                    valuePatternRegEx |-> IF valuePatternRegEx = <<>>
                                          THEN RegExpAnyGI
                                          ELSE valuePatternRegEx[1],
                    lastIndex |-> 0,
                    value |-> defaultVal,
                    nextCommandArg |-> 0]]

\* new CommandArgImpl(name, switches, desc, valuePatternText, valuePatternRegEx,
\* defaultVal): the object built, or the error thrown.  valuePatternRegEx is
\* optional (<<>> when the caller leaves it out).
CommandArgImpl(name, switches, valuePatternRegEx, defaultVal) ==
  LET trimmed == [i \in 1..Len(switches) |-> trim(switches[i])]
      sorted  == sort(trimmed)
  IN IF Len(switches) < 1
     THEN [err |-> PARAM_MISSING, arg |-> NoCommandArg]
     ELSE IF \E i \in 1..Len(trimmed) : trimmed[i] = EmptyStr
     THEN [err |-> PARAM_INVALID, arg |-> NoCommandArg]
     ELSE IF \E i \in 1..Len(sorted) : ~switchTest(sorted[i])
     THEN [err |-> PARAM_INVALID, arg |-> NoCommandArg]
     ELSE [err |-> "",
           arg |-> [name |-> name,
                    switches |-> unique(sorted),
                    valuePatternRegEx |-> IF valuePatternRegEx = <<>>
                                          THEN RegExpAnyGI
                                          ELSE valuePatternRegEx[1],
                    lastIndex |-> 0,
                    value |-> defaultVal,
                    nextCommandArg |-> 0]]

\* a registry under construction: the Command[] and the heap of CommandArg
\* objects; err is the error of the last call ("" when it returned)
NoRegistry == [cmds |-> <<>>, heap |-> <<>>, err |-> ""]

\* cmds.push(new CommandImpl(command, desc))
pushCommand(reg, command) ==
  LET c == CommandImpl(command)
  IN IF c.err # "" THEN [reg EXCEPT !.err = c.err]
     ELSE [reg EXCEPT !.cmds = Append(@, c.cmd), !.err = ""]

\* CommandImpl.addArgument on command number ci; the CommandArg returned is
\* the last object of the heap
CommandAddArgument(reg, ci, name, switches, valuePatternRegEx, defaultVal) ==
  LET a == CommandArgImpl(name, switches, valuePatternRegEx, defaultVal)
  IN IF a.err # "" THEN [reg EXCEPT !.err = a.err]
     ELSE [reg EXCEPT !.heap = Append(@, a.arg),
                      !.cmds[ci].args = Append(@, Len(reg.heap) + 1),
                      !.err = ""]

\* a variant of CommandArgImpl.addArgument that drops the next link before it
\* builds the new CommandArg
CommandArgAddArgumentUnlinking(reg, id, name, switches, valuePatternRegEx, defaultVal) ==
  LET a == CommandArgImpl(name, switches, valuePatternRegEx, defaultVal)
  IN IF a.err # "" THEN [reg EXCEPT !.heap[id].nextCommandArg = 0, !.err = a.err]
     ELSE [reg EXCEPT !.heap = [Append(@, a.arg) EXCEPT ![id].nextCommandArg = Len(reg.heap) + 1],
                      !.err = ""]

\* a variant of CommandArgImpl.addArgument whose new CommandArg links back to
\* the CommandArg it was added to
CommandArgAddArgumentBackLinked(reg, id, name, switches, valuePatternRegEx, defaultVal) ==
  LET a == CommandArgImpl(name, switches, valuePatternRegEx, defaultVal)
  IN IF a.err # "" THEN [reg EXCEPT !.err = a.err]
     ELSE [reg EXCEPT !.heap = [Append(@, [a.arg EXCEPT !.nextCommandArg = id])
                                  EXCEPT ![id].nextCommandArg = Len(reg.heap) + 1],
                      !.err = ""]

\* CommandArgImpl.addArgument on the CommandArg with reference id
CommandArgAddArgument(reg, id, name, switches, valuePatternRegEx, defaultVal) ==
  LET a == CommandArgImpl(name, switches, valuePatternRegEx, defaultVal)
  IN IF a.err # "" THEN [reg EXCEPT !.err = a.err]
     ELSE [reg EXCEPT !.heap = [Append(@, a.arg) EXCEPT ![id].nextCommandArg = Len(reg.heap) + 1],
                      !.err = ""]

\* CommandArgImpl.addArgument chained on the CommandArg the last addArgument
\* returned
ChainAddArgument(reg, name, switches, valuePatternRegEx, defaultVal) ==
  CommandArgAddArgument(reg, Len(reg.heap), name, switches, valuePatternRegEx, defaultVal)

\* a variant of setValueTested that stores the value whatever the test gave
setValueUntested(heap, id, val, t) ==
  [heap |-> [heap EXCEPT ![id].value = val, ![id].lastIndex = t.lastIndex],
   ret |-> TRUE]

\* CommandArgImpl.setValue, after val = val.trim() and the test of the
\* pattern (t): the heap after the call and the value returned
setValueTested(heap, id, val, t) ==
  IF t.ok
  THEN [heap |-> [heap EXCEPT ![id].value = val, ![id].lastIndex = t.lastIndex],
        ret |-> TRUE]
  ELSE [heap |-> [heap EXCEPT ![id].lastIndex = t.lastIndex],
        ret |-> FALSE]

\* CommandArgImpl.setValue, after val = val.trim()
setValueTrimmed(heap, id, val) ==
  setValueTested(heap, id, val,
                 RegExpTest(heap[id].valuePatternRegEx, heap[id].lastIndex, val))

\* CommandArgImpl.setValue: the heap after the call and the value returned
setValue(heap, id, val) == setValueTrimmed(heap, id, trim(val))

(***************************************************************************)
(* Resolution: parseCommandArguments and its helpers                       *)
(***************************************************************************)
\* Map.prototype.set
MapSet(args, key, val) == (key :> val) @@ args

\* an empty Map<string, string>
EmptyMap == [k \in {} |-> EmptyStr]

\* a variant of convertLoop that drops a value that follows no switch
RECURSIVE convertLoopLenient(_, _, _)
convertLoopLenient(argv, key, args) ==
  IF Len(argv) = 0
  THEN [err |-> "", msg |-> EmptyStr, args |-> args]
  ELSE IF switchTest(argv[1])
  THEN convertLoopLenient(Tail(argv), argv[1],
                          IF key # EmptyStr THEN MapSet(args, key, EmptyStr) ELSE args)
  ELSE IF key # EmptyStr
  THEN convertLoopLenient(Tail(argv), EmptyStr, MapSet(args, key, argv[1]))
  ELSE convertLoopLenient(Tail(argv), EmptyStr, args)

\* convertArgvtoMap: the loop, with its locals key and args.  The result is
\* the map returned, or the token the CMDARG_NOKEY error carries.
RECURSIVE convertLoop(_, _, _)
convertLoop(argv, key, args) ==
  IF Len(argv) = 0
  THEN [err |-> "", msg |-> EmptyStr, args |-> args]
  ELSE IF switchTest(argv[1])
  THEN convertLoop(Tail(argv), argv[1],
                   IF key # EmptyStr THEN MapSet(args, key, EmptyStr) ELSE args)
  ELSE IF key # EmptyStr
  THEN convertLoop(Tail(argv), EmptyStr, MapSet(args, key, argv[1]))
  ELSE [err |-> CMDARG_NOKEY, msg |-> argv[1], args |-> args]

convertArgvtoMap(argv) == convertLoop(argv, EmptyStr, EmptyMap)

\* matchCommandArg: the first half of the forEach body for the spelling sw
\* (swVal = args.get(sw) || ''; setValue when swVal is not empty): the heap
matchSwitch(heap, id, args, sw) ==
  IF sw \in DOMAIN args /\ args[sw] # EmptyStr
  THEN setValue(heap, id, args[sw]).heap
  ELSE heap

\* matchCommandArg: the forEach over cmdArg.switches from index i on; after
\* each spelling found becomes true if the value is not empty
RECURSIVE matchSwitches(_, _, _, _, _)
RECURSIVE matchSwitchesNext(_, _, _, _, _)
matchSwitches(heap, id, args, i, found) ==
  IF i > Len(heap[id].switches)
  THEN [heap |-> heap, found |-> found]
  ELSE matchSwitchesNext(matchSwitch(heap, id, args, heap[id].switches[i]),
                         id, args, i, found)

matchSwitchesNext(heap, id, args, i, found) ==
  matchSwitches(heap, id, args, i + 1, found \/ heap[id].value # EmptyStr)

matchCommandArg(heap, id, args) == matchSwitches(heap, id, args, 1, FALSE)

\* matchCommandArgs: the walk through the linked list that follows a matched
\* first CommandArg; cmdArgs counts the nodes pushed so far, m is what
\* matchCommandArg gave for the node n
RECURSIVE walkSet(_, _, _, _, _)
RECURSIVE walkSetMatched(_, _, _, _, _)
walkSet(heap, nextCA, args, cmdArgs, valueSetCount) ==
  IF heap[nextCA].nextCommandArg = 0
  THEN [heap |-> heap, cmdArgs |-> cmdArgs, valueSetCount |-> valueSetCount]
  ELSE walkSetMatched(matchCommandArg(heap, heap[nextCA].nextCommandArg, args),
                      heap[nextCA].nextCommandArg, args, cmdArgs, valueSetCount)

walkSetMatched(m, n, args, cmdArgs, valueSetCount) ==
  walkSet(m.heap, n, args, cmdArgs + 1,
          IF m.found THEN valueSetCount + 1 ELSE valueSetCount)

\* matchCommandArgs: the body of the forEach for one set of switches, after
\* matchCommandArg gave m for the first CommandArg
matchSetHead(m, cmdArg, args) ==
  IF m.found
  THEN walkSet(m.heap, cmdArg, args, 1, 1)
  ELSE [heap |-> m.heap, cmdArgs |-> 0, valueSetCount |-> 0]

\* matchCommandArgs: the body of the forEach for one set of switches
matchSet(heap, cmdArg, args) ==
  matchSetHead(matchCommandArg(heap, cmdArg, args), cmdArg, args)

\* matchCommandArgs: the forEach over cmd.args from index i on; the two
\* WeakMaps are functions from the reference of the first CommandArg, r is
\* what the body gave for set number i
RECURSIVE matchCommandArgsFrom(_, _, _, _, _, _)
RECURSIVE matchCommandArgsSet(_, _, _, _, _, _)
matchCommandArgsFrom(cmdArgs, heap, args, i, setCmdArgsCount, setCmdArgsWithValueCount) ==
  IF i > Len(cmdArgs)
  THEN [heap |-> heap, setCmdArgsCount |-> setCmdArgsCount,
        setCmdArgsWithValueCount |-> setCmdArgsWithValueCount]
  ELSE matchCommandArgsSet(cmdArgs, matchSet(heap, cmdArgs[i], args), args, i,
                           setCmdArgsCount, setCmdArgsWithValueCount)

matchCommandArgsSet(cmdArgs, r, args, i, setCmdArgsCount, setCmdArgsWithValueCount) ==
  matchCommandArgsFrom(cmdArgs, r.heap, args, i + 1,
                       (cmdArgs[i] :> r.cmdArgs) @@ setCmdArgsCount,
                       (cmdArgs[i] :> r.valueSetCount) @@ setCmdArgsWithValueCount)

matchCommandArgs(cmd, heap, args) ==
  matchCommandArgsFrom(cmd.args, heap, args, 1, [k \in {} |-> 0], [k \in {} |-> 0])

\* a variant of selectCommandArg that copies everything but the values
RECURSIVE selectCommandArgNoValue(_, _)
selectCommandArgNoValue(heap, cmdArg) ==
  [name |-> heap[cmdArg].name,
   switches |-> heap[cmdArg].switches,
   valuePatternRegEx |-> heap[cmdArg].valuePatternRegEx,
   value |-> EmptyStr,
   nextCommandArg |-> IF heap[cmdArg].nextCommandArg # 0
                      THEN <<selectCommandArgNoValue(heap, heap[cmdArg].nextCommandArg)>>
                      ELSE <<>>]

\* selectCommandArg: the deep copy of a CommandArg and of the nodes after it
RECURSIVE selectCommandArg(_, _)
selectCommandArg(heap, cmdArg) ==
  [name |-> heap[cmdArg].name,
   switches |-> heap[cmdArg].switches,
   valuePatternRegEx |-> heap[cmdArg].valuePatternRegEx,
   value |-> heap[cmdArg].value,
   nextCommandArg |-> IF heap[cmdArg].nextCommandArg # 0
                      THEN <<selectCommandArg(heap, heap[cmdArg].nextCommandArg)>>
                      ELSE <<>>]

\* selectCommandArgs (CommandImpl.args is always an array, never undefined)
selectCommandArgs(heap, cmdArgs) ==
  [i \in 1..Len(cmdArgs) |-> selectCommandArg(heap, cmdArgs[i])]

\* a variant of selectCommand that converts one set only in either case
selectCommandOneSet(heap, cmd, cmdArg) ==
  [command |-> cmd.command,
   args |-> IF cmdArg # 0 THEN <<selectCommandArg(heap, cmdArg)>>
            ELSE SubSeq(selectCommandArgs(heap, cmd.args), 1, 1)]

\* selectCommand; cmdArg is 0 when the second parameter is left out
selectCommand(heap, cmd, cmdArg) ==
  [command |-> cmd.command,
   args |-> IF cmdArg # 0 THEN <<selectCommandArg(heap, cmdArg)>>
            ELSE selectCommandArgs(heap, cmd.args)]

\* a variant of findCommand that falls back to the first command
findCommandOrFirst(cmds, requestedCmd) ==
  LET hit == {i \in 1..Len(cmds) : toLowerCase(cmds[i].command) = requestedCmd}
  IN IF hit = {} THEN 1 ELSE CHOOSE i \in hit : \A j \in hit : i <= j

\* cmds.find(val => val.command.toLowerCase() === requestedCmd): the index of
\* the first command that matches, 0 when there is none
findCommand(cmds, requestedCmd) ==
  LET hit == {i \in 1..Len(cmds) : toLowerCase(cmds[i].command) = requestedCmd}
  IN IF hit = {} THEN 0 ELSE CHOOSE i \in hit : \A j \in hit : i <= j

\* cmdArgsWithCount: the forEach that pushes the sets with count > 0, from
\* index i on
RECURSIVE cmdArgsWithCountFrom(_, _, _)
cmdArgsWithCountFrom(cmdArgs, setCmdArgsCount, i) ==
  IF i > Len(cmdArgs) THEN <<>>
  ELSE IF setCmdArgsCount[cmdArgs[i]] > 0
  THEN <<[cmdArg |-> cmdArgs[i], count |-> setCmdArgsCount[cmdArgs[i]]]>>
         \o cmdArgsWithCountFrom(cmdArgs, setCmdArgsCount, i + 1)
  ELSE cmdArgsWithCountFrom(cmdArgs, setCmdArgsCount, i + 1)

\* a variant of cmdArgsWithCount that also pushes the sets with count 0
cmdArgsWithCountAll(cmdArgs, setCmdArgsCount) ==
  [i \in 1..Len(cmdArgs) |-> [cmdArg |-> cmdArgs[i], count |-> setCmdArgsCount[cmdArgs[i]]]]

\* cmdArgsWithCount: the sets with count > 0 in the order of cmd.args
cmdArgsWithCount(cmdArgs, setCmdArgsCount) ==
  cmdArgsWithCountFrom(cmdArgs, setCmdArgsCount, 1)

\* a variant of sortByCount that puts the later of two equal counts first
RECURSIVE sortByCountUnstable(_)
sortByCountUnstable(xs) ==
  IF xs = <<>> THEN <<>>
  ELSE LET m == CHOOSE i \in 1..Len(xs) :
                  /\ \A j \in 1..Len(xs) : xs[i].count <= xs[j].count
                  /\ \A j \in (i + 1)..Len(xs) : xs[i].count < xs[j].count
       IN <<xs[m]>> \o sortByCountUnstable(SubSeq(xs, 1, m - 1) \o SubSeq(xs, m + 1, Len(xs)))

\* cmdArgsWithCount.sort(...) by count, small to large; the sort is stable
RECURSIVE sortByCount(_)
sortByCount(xs) ==
  IF xs = <<>> THEN <<>>
  ELSE LET m == CHOOSE i \in 1..Len(xs) :
                  /\ \A j \in 1..Len(xs) : xs[i].count <= xs[j].count
                  /\ \A j \in 1..(i - 1) : xs[i].count < xs[j].count
       IN <<xs[m]>> \o sortByCount(SubSeq(xs, 1, m - 1) \o SubSeq(xs, m + 1, Len(xs)))

\* a variant of findWinner that only looks at the smallest set
findWinnerSmallestOnly(sorted, setCmdArgsWithValueCount) ==
  IF sorted = <<>> THEN 0
  ELSE IF sorted[1].count = setCmdArgsWithValueCount[sorted[1].cmdArg]
  THEN sorted[1].cmdArg
  ELSE 0

\* a variant of findWinner that takes the first set the command line
\* addressed, complete or not
findWinnerFirstAddressed(sorted, setCmdArgsWithValueCount) ==
  IF sorted = <<>> THEN 0 ELSE sorted[1].cmdArg

\* cmdArgsWithCount.find(a => a.count === setCmdArgsWithValueCount.get(a.cmdArg)):
\* the reference of the first CommandArg of the winning set, 0 when none
findWinner(sorted, setCmdArgsWithValueCount) ==
  LET hit == {i \in 1..Len(sorted) :
                sorted[i].count = setCmdArgsWithValueCount[sorted[i].cmdArg]}
  IN IF hit = {} THEN 0
     ELSE sorted[CHOOSE i \in hit : \A j \in hit : i <= j].cmdArg

\* the members of ParsedActions
Success == "Success"

MissingCommand == "MissingCommand"

MissingArg == "MissingArg"

Help == "Help"

Usage == "Usage"

FullUsage == "FullUsage"

Version == "Version"

\* what a call leaves behind: kind is "return" or "throw"; a returned tuple
\* is [action, selCmd] with selCmd optional; a thrown AppError has a code and
\* a message; heap is the heap after the call
Returned(action, selCmd, heap) ==
  [kind |-> "return", action |-> action, selCmd |-> selCmd,
   errCode |-> "", errMsg |-> EmptyStr, heap |-> heap]

Thrown(errCode, errMsg, heap) ==
  [kind |-> "throw", action |-> "", selCmd |-> <<>>,
   errCode |-> errCode, errMsg |-> errMsg, heap |-> heap]

\* parseCommandArguments: the outcome once the winner is known
\* (selectedCmdArg is 0 when find() gave undefined)
parseSelected(cmd, heap, selectedCmdArg) ==
  IF selectedCmdArg # 0
  THEN Returned(Success, <<selectCommand(heap, cmd, selectedCmdArg)>>, heap)
  ELSE Returned(MissingArg, <<selectCommand(heap, cmd, 0)>>, heap)

\* parseCommandArguments: from the counts m of matchCommandArgs to the winner
parseMatched(cmd, m) ==
  parseSelected(cmd, m.heap,
                findWinner(sortByCount(cmdArgsWithCount(cmd.args, m.setCmdArgsCount)),
                           m.setCmdArgsWithValueCount))

\* a variant of parseTokenMap that applies the pairs read before the fault
parseTokenMapEager(cmd, heap, conv) ==
  IF conv.err # ""
  THEN Thrown(conv.err, conv.msg, matchCommandArgs(cmd, heap, conv.args).heap)
  ELSE parseMatched(cmd, matchCommandArgs(cmd, heap, conv.args))

\* parseCommandArguments: after convertArgvtoMap gave conv
parseTokenMap(cmd, heap, conv) ==
  IF conv.err # ""
  THEN Thrown(conv.err, conv.msg, heap)
  ELSE parseMatched(cmd, matchCommandArgs(cmd, heap, conv.args))

\* parseCommandArguments: the last branch (the command has sets of switches
\* and tokens follow the command name)
parseSwitches(cmd, heap, argv) == parseTokenMap(cmd, heap, convertArgvtoMap(argv))

\* a variant of parseKnownCommand that tokenizes whenever tokens follow
parseKnownCommandTokensFirst(cmd, heap, argv) ==
  IF Len(argv) # 0
  THEN parseSwitches(cmd, heap, argv)
  ELSE IF Len(cmd.args) < 1
  THEN Returned(Success, <<selectCommand(heap, cmd, 0)>>, heap)
  ELSE Returned(MissingArg, <<selectCommand(heap, cmd, 0)>>, heap)

\* a variant of parseKnownCommand without the test for an empty argv
parseKnownCommandNoEmptyTest(cmd, heap, argv) ==
  IF Len(cmd.args) < 1
  THEN Returned(Success, <<selectCommand(heap, cmd, 0)>>, heap)
  ELSE parseSwitches(cmd, heap, argv)

\* parseCommandArguments: the branches taken once the command is found
parseKnownCommand(cmd, heap, argv) ==
  IF Len(cmd.args) < 1
  THEN Returned(Success, <<selectCommand(heap, cmd, 0)>>, heap)
  ELSE IF Len(argv) = 0
  THEN Returned(MissingArg, <<selectCommand(heap, cmd, 0)>>, heap)
  ELSE parseSwitches(cmd, heap, argv)

\* a variant of parseValidate that answers an empty argv with Usage
parseValidateUsage(cmds, heap, argv) ==
  IF Len(cmds) < 1
  THEN <<Thrown(PARAM_INVALID, EmptyStr, heap)>>
  ELSE IF Len(argv) < 1
  THEN <<Returned(Usage, <<>>, heap)>>
  ELSE <<>>

\* parseCommandArguments: the validation of the parameters; the outcome it
\* ends the call with, if any
parseValidate(cmds, heap, argv) ==
  IF Len(cmds) < 1
  THEN <<Thrown(PARAM_INVALID, EmptyStr, heap)>>
  ELSE IF Len(argv) < 1
  THEN <<Returned(FullUsage, <<>>, heap)>>
  ELSE <<>>

\* parseCommandArguments: after cmds.find gave command number ci (0: none)
parseCommand(cmds, heap, argv, ci) ==
  IF ci = 0
  THEN Returned(MissingCommand, <<>>, heap)
  ELSE parseKnownCommand(cmds[ci], heap, Tail(argv))

\* parseCommandArguments: after the validation gave early
parseValidated(early, cmds, heap, argv) ==
  IF early # <<>>
  THEN early[1]
  ELSE parseCommand(cmds, heap, argv, findCommand(cmds, toLowerCase(argv[1])))

parseCommandArguments(cmds, heap, argv) ==
  parseValidated(parseValidate(cmds, heap, argv), cmds, heap, argv)

(***************************************************************************)
(* Registries                                                              *)
(***************************************************************************)
\* command names
s_cidr == <<"c", "i", "d", "r">>

s_CIDR == <<"C", "I", "D", "R">>

s_Bogus == <<"B", "o", "g", "u", "s">>

s_version == <<"v", "e", "r", "s", "i", "o", "n">>

s_def == <<"d", "e", "f">>

s_pat == <<"p", "a", "t">>

s_one == <<"o", "n", "e">>

s_two == <<"t", "w", "o">>

s_cmd == <<"c", "m", "d">>

\* switches
sw_c == <<"-", "c">>

sw_cidr == <<"-", "-", "c", "i", "d", "r">>

sw_i == <<"-", "i">>

sw_ipv4 == <<"-", "-", "i", "p", "v", "4">>

sw_cb == <<"-", "c", "b">>

sw_cidr_block == <<"-", "-", "c", "i", "d", "r", "-", "b", "l", "o", "c", "k">>

sw_a == <<"-", "a">>

sw_b == <<"-", "b">>

sw_cee == <<"-", "-", "c", "e", "e">>

sw_d == <<"-", "d">>

sw_e == <<"-", "e">>

sw_f == <<"-", "f">>

sw_p == <<"-", "p">>

sw_q == <<"-", "q">>

sw_m == <<"-", "m">>

sw_mm == <<"-", "-", "m", "m">>

sw_n == <<"-", "n">>

\* values
v_cidr == <<"1", "0", ".", "0", ".", "0", ".", "0", "/", "2", "4">>

v_ip == <<"1", "0", ".", "0", ".", "0", ".", "0">>

v_cb == <<"2", "4">>

v_x == <<"x">>

v_xy == <<"x", "y">>

v_blank == <<" ">>

(***************************************************************************)
(* The handler of the command cidr                                         *)
(***************************************************************************)
\* what execCIDR leaves behind: the error it threw ("" when none), and the
\* two strings it hands to CIDRModule.parseCIDR (undefined is <<>>)
Executed(queryIP, queryCB) == [err |-> "", queryIP |-> queryIP, queryCB |-> queryCB]

Failed(err) == [err |-> err, queryIP |-> <<>>, queryCB |-> <<>>]

TypeError == "TypeError"

\* execCIDR: [queryIP, queryCB] = cmd.args[0].value.split('/')
execSplit(parts) ==
  Executed(<<parts[1]>>, IF Len(parts) >= 2 THEN <<parts[2]>> ELSE <<>>)

\* execCIDR: the switch on the name of the first CommandArg
execFirst(arg) ==
  IF arg.name = "cidr" THEN execSplit(split(arg.value, "/"))
  ELSE IF arg.name = "ip"
  THEN IF arg.nextCommandArg = <<>> THEN Failed(TypeError)
       ELSE Executed(<<arg.value>>, <<arg.nextCommandArg[1].value>>)
  ELSE Failed(PARAM_INVALID)

\* execCIDR(cmd) up to the call of CIDRModule.parseCIDR
execCIDR(cmd) ==
  IF cmd.command # s_cidr THEN Failed(PARAM_INVALID)
  ELSE IF Len(cmd.args) > 1 THEN Failed(PARAM_INVALID)
  ELSE IF Len(cmd.args) = 0 THEN Failed(TypeError)
  ELSE execFirst(cmd.args[1])

\* getCIDRCommandLineArgs of exec_cidr, pushed by configCommandArgs of index.ts
configCommandArgs ==
  LET r0 == pushCommand(NoRegistry, s_cidr)
      r1 == CommandAddArgument(r0, 1, "cidr", <<sw_c, sw_cidr>>, <<RegExpCIDR>>, EmptyStr)
      r2 == CommandAddArgument(r1, 1, "ip", <<sw_i, sw_ipv4>>, <<RegExpIP>>, EmptyStr)
      r3 == ChainAddArgument(r2, "cb", <<sw_cb, sw_cidr_block>>, <<RegExpCB>>, EmptyStr)
  IN r3

\* a registry with two sets of two switches each: a -> b and c -> d; a and c
\* take the pattern /.*/ of the module header, b and d leave the pattern out,
\* c has two spellings and d has a default value
configSets ==
  LET r0 == pushCommand(NoRegistry, s_cmd)
      r1 == CommandAddArgument(r0, 1, "a", <<sw_a>>, <<RegExpAny>>, EmptyStr)
      r2 == ChainAddArgument(r1, "b", <<sw_b>>, <<>>, EmptyStr)
      r3 == CommandAddArgument(r2, 1, "c", <<sw_c, sw_cee>>, <<RegExpAny>>, EmptyStr)
      r4 == ChainAddArgument(r3, "d", <<sw_d>>, <<>>, v_x)
  IN r4

\* a registry with a command without switches and a command whose only set
\* has a default value on every node
configDefaults ==
  LET r0 == pushCommand(NoRegistry, s_version)
      r1 == pushCommand(r0, s_def)
      r2 == CommandAddArgument(r1, 2, "e", <<sw_e>>, <<RegExpAny>>, v_x)
      r3 == ChainAddArgument(r2, "f", <<sw_f>>, <<RegExpAny>>, v_x)
  IN r3

\* a registry with one set p -> q: p leaves the pattern out and has no default
\* value, q takes the pattern /.*/ and has a default value
configPattern ==
  LET r0 == pushCommand(NoRegistry, s_pat)
      r1 == CommandAddArgument(r0, 1, "p", <<sw_p>>, <<>>, EmptyStr)
      r2 == ChainAddArgument(r1, "q", <<sw_q>>, <<RegExpAny>>, v_x)
  IN r2

\* a registry with two commands that have a set each: command one has the
\* node m with two spellings and no pattern of its own, command two has the
\* node n whose default value is not a value of its pattern
configTwo ==
  LET r0 == pushCommand(NoRegistry, s_one)
      r1 == pushCommand(r0, s_two)
      r2 == CommandAddArgument(r1, 1, "m", <<sw_m, sw_mm>>, <<>>, EmptyStr)
      r3 == CommandAddArgument(r2, 2, "n", <<sw_n>>, <<RegExpCB>>, v_x)
  IN r3

Configs == {"cli", "sets", "defaults", "pattern", "two"}

Registry(c) ==
  CASE c = "cli" -> configCommandArgs
    [] c = "sets" -> configSets
    [] c = "defaults" -> configDefaults
    [] c = "pattern" -> configPattern
    [] c = "two" -> configTwo

\* the sequences over S of length at most n
SeqsUpTo(S, n) == UNION {[1..k -> S] : k \in 0..n}

\* the argument vectors tried: the empty one, and a first token followed by
\* at most MaxArgs tokens
ArgvsOf(first, tokens) ==
  {<<>>} \cup {<<f>> \o r : f \in first, r \in SeqsUpTo(tokens, MaxArgs)}

ArgvsCli == ArgvsOf({s_cidr, s_CIDR, s_Bogus}, {sw_c, sw_i, sw_cb, v_cidr, v_ip, v_cb})

ArgvsSets == ArgvsOf({s_cmd, s_Bogus}, {sw_a, sw_b, sw_c, sw_cee, v_x, v_blank})

ArgvsDefaults == ArgvsOf({s_version, s_def, s_Bogus}, {sw_e, sw_f, v_x, v_blank})

ArgvsPattern == ArgvsOf({s_pat}, {sw_p, sw_q, v_x, v_xy})

ArgvsTwo == ArgvsOf({s_one, s_two}, {sw_m, sw_mm, v_x, v_xy})

Argvs(c) ==
  CASE c = "cli" -> ArgvsCli
    [] c = "sets" -> ArgvsSets
    [] c = "defaults" -> ArgvsDefaults
    [] c = "pattern" -> ArgvsPattern
    [] c = "two" -> ArgvsTwo

\* the candidates handed to setValue directly
Candidates(c) ==
  CASE c = "cli" -> {v_cidr, v_ip, v_cb}
    [] c = "sets" -> {v_x, v_blank}
    [] c = "defaults" -> {v_x, v_blank}
    [] c = "pattern" -> {v_x, v_xy, v_blank}
    [] c = "two" -> {v_x, v_xy}

\* the command names handed to new CommandImpl while a registry is built
CommandInputs ==
  {<<"C", "m", "d">>, <<" ", "v", "1", " ">>, EmptyStr, v_blank, sw_c, <<"a", " ", "b">>}

\* the switch lists handed to addArgument while a registry is built
SwitchInputs ==
  {<<>>,
   <<sw_a, v_blank>>,
   <<v_x>>,
   <<<<"-", "1">>>>,
   <<sw_a, v_x>>,
   <<<<" ", "-", "b", " ">>, sw_a, sw_b>>,
   <<<<"-", "a", " ", "b">>>>}

\* the name given to the CommandArg that becomes object number i of the heap
NodeName(i) == "n" \o ToString(i)

(***************************************************************************)
(* The state machine: a caller that owns a registry and calls              *)
(* parseCommandArguments and CommandArg.setValue on it, one call at a time *)
(***************************************************************************)
VARIABLES
  config,   \* the registry the caller built
  cmds,     \* the Command[] handed to parseCommandArguments
  heap,     \* the CommandArg objects
  pc,       \* "idle", or the call whose outcome the caller holds
  argv,     \* the argv of the parseCommandArguments call
  result,   \* what the parseCommandArguments call returned or threw
  heapAtCall, \* the CommandArg objects as they were when the call was made
  setCall,  \* the setValue call: its CommandArg, its candidate, its result
  kept,     \* a SelectedCommand the caller kept, with the CommandArg objects
            \* as they were when parseCommandArguments returned it
  built,    \* the construction call: its inputs, the error it threw, and the
            \* registry as it was when the call was made
  exec      \* what execCIDR did with the SelectedCommand

vars == <<config, cmds, heap, pc, argv, result, heapAtCall, setCall, kept, built, exec>>

NoResult ==
  [kind |-> "none", action |-> "", selCmd |-> <<>>, errCode |-> "", errMsg |-> EmptyStr]

NoSetCall == [cmdArg |-> 0, val |-> EmptyStr, ret |-> FALSE]

NoKept == <<>>

NoBuilt ==
  [op |-> "", command |-> EmptyStr, switches |-> <<>>, on |-> 0, err |-> "",
   cmds |-> <<>>, heap |-> <<>>]

NoExec == [err |-> "", queryIP |-> <<>>, queryCB |-> <<>>]

\* the caller holds the registry reg
Holds(reg) ==
  /\ cmds = reg.cmds
  /\ heap = reg.heap

Init ==
  /\ config \in Configs
  /\ Holds(Registry(config))
  /\ pc = "idle"
  /\ argv = <<>>
  /\ result = NoResult
  /\ heapAtCall = <<>>
  /\ setCall = NoSetCall
  /\ kept = NoKept
  /\ built = NoBuilt
  /\ exec = NoExec

\* the call of parseCommandArguments ended with r
Outcome(r) ==
  /\ heap' = r.heap
  /\ result' = [kind |-> r.kind, action |-> r.action, selCmd |-> r.selCmd,
                errCode |-> r.errCode, errMsg |-> r.errMsg]

\* one call of parseCommandArguments(cmds, argv)
Resolve ==
  /\ pc = "idle"
  /\ \E a \in Argvs(config) :
       /\ argv' = a
       /\ Outcome(parseCommandArguments(cmds, heap, a))
  /\ pc' = "parseCommandArguments"
  /\ heapAtCall' = heap
  /\ UNCHANGED <<config, cmds, setCall, kept, built, exec>>

\* the call of setValue(val) on the CommandArg id ended with r
SetOutcome(id, val, r) ==
  /\ heap' = r.heap
  /\ setCall' = [cmdArg |-> id, val |-> val, ret |-> r.ret]

\* one call of setValue on a CommandArg of the registry
SetValue ==
  /\ pc = "idle"
  /\ \E id \in 1..Len(heap), val \in Candidates(config) :
       SetOutcome(id, val, setValue(heap, id, val))
  /\ pc' = "setValue"
  /\ heapAtCall' = heap
  /\ UNCHANGED <<config, cmds, argv, result, kept, built, exec>>

\* the caller is done with the outcome of the call
Done ==
  /\ pc # "idle"
  /\ pc' = "idle"
  /\ argv' = <<>>
  /\ result' = NoResult
  /\ heapAtCall' = <<>>
  /\ setCall' = NoSetCall
  /\ built' = NoBuilt
  /\ exec' = NoExec
  /\ UNCHANGED <<config, cmds, heap, kept>>

\* the caller keeps the SelectedCommand that parseCommandArguments returned
\* (the first one it chooses to keep) and goes on using the registry
Keep ==
  /\ pc = "parseCommandArguments"
  /\ result.kind = "return"
  /\ result.selCmd # <<>>
  /\ kept = NoKept
  /\ kept' = <<[selCmd |-> result.selCmd[1], heap |-> heap]>>
  /\ pc' = "idle"
  /\ argv' = <<>>
  /\ result' = NoResult
  /\ heapAtCall' = <<>>
  /\ setCall' = NoSetCall
  /\ UNCHANGED <<config, cmds, heap, built, exec>>

\* execCIDR ended with r
ExecOutcome(r) == exec' = r

\* execCLI hands the SelectedCommand of a Success for the command cidr to
\* execCIDR
ExecCIDR ==
  /\ pc = "parseCommandArguments"
  /\ result.kind = "return"
  /\ result.action = Success
  /\ result.selCmd # <<>>
  /\ result.selCmd[1].command = s_cidr
  /\ ExecOutcome(execCIDR(result.selCmd[1]))
  /\ pc' = "execCIDR"
  /\ UNCHANGED <<config, cmds, heap, argv, result, heapAtCall, setCall, kept, built>>

Next == Resolve \/ SetValue \/ ExecCIDR \/ Done

Spec == Init /\ [][Next]_vars

\* the caller only ever calls parseCommandArguments
SpecParse == Init /\ [][Resolve \/ Done]_vars

\* the caller of the registry p -> q keeps a SelectedCommand
InitKeep == Init /\ config = "pattern"

SpecKeep == InitKeep /\ [][Resolve \/ SetValue \/ Keep \/ Done]_vars

\* the construction call ended with the registry r
BuildOutcome(op, command, switches, on, r) ==
  /\ cmds' = r.cmds
  /\ heap' = r.heap
  /\ built' = [op |-> op, command |-> command, switches |-> switches, on |-> on,
               err |-> r.err, cmds |-> cmds, heap |-> heap]

\* the registry the caller is building
Building == [cmds |-> cmds, heap |-> heap, err |-> ""]

\* cmds.push(new CommandImpl(command, desc))
NewCommand ==
  /\ pc = "idle"
  /\ config = "build"
  /\ Len(cmds) < MaxCommands
  /\ \E c \in CommandInputs :
       BuildOutcome("CommandImpl", c, <<>>, 0, pushCommand(Building, c))
  /\ pc' = "built"
  /\ UNCHANGED <<config, argv, result, heapAtCall, setCall, kept, exec>>

\* cmd.addArgument(name, switches, desc, valuePatternText) on a command of
\* the registry
AddArgument ==
  /\ pc = "idle"
  /\ config = "build"
  /\ Len(heap) < MaxNodes
  /\ \E ci \in 1..Len(cmds), sw \in SwitchInputs :
       BuildOutcome("Command.addArgument", EmptyStr, sw, ci,
                    CommandAddArgument(Building, ci, NodeName(Len(heap) + 1), sw, <<>>, EmptyStr))
  /\ pc' = "built"
  /\ UNCHANGED <<config, argv, result, heapAtCall, setCall, kept, exec>>

\* cmdArg.addArgument(name, switches, desc, valuePatternText) on a CommandArg
\* of the registry
ChainArgument ==
  /\ pc = "idle"
  /\ config = "build"
  /\ Len(heap) < MaxNodes
  /\ \E id \in 1..Len(heap), sw \in SwitchInputs :
       BuildOutcome("CommandArg.addArgument", EmptyStr, sw, id,
                    CommandArgAddArgument(Building, id, NodeName(Len(heap) + 1), sw, <<>>, EmptyStr))
  /\ pc' = "built"
  /\ UNCHANGED <<config, argv, result, heapAtCall, setCall, kept, exec>>

\* the configuration phase: the caller starts from an empty registry
InitBuild ==
  /\ config = "build"
  /\ cmds = <<>>
  /\ heap = <<>>
  /\ pc = "idle"
  /\ argv = <<>>
  /\ result = NoResult
  /\ heapAtCall = <<>>
  /\ setCall = NoSetCall
  /\ kept = NoKept
  /\ built = NoBuilt
  /\ exec = NoExec

SpecBuild == InitBuild /\ [][NewCommand \/ AddArgument \/ ChainArgument \/ Done]_vars

(***************************************************************************)
(* Observations on the parseCommandArguments call whose outcome is held    *)
(***************************************************************************)
Parsed == pc = "parseCommandArguments"

\* command number i is the one the first token names
Names(i) == toLowerCase(cmds[i].command) = toLowerCase(argv[1])

\* the first token names no command of the registry
NoCommandNamed == Len(argv) >= 1 /\ \A i \in 1..Len(cmds) : ~Names(i)

\* the command the first token names (the first one registered under it)
TheCommand ==
  cmds[CHOOSE i \in 1..Len(cmds) : Names(i) /\ \A j \in 1..(i - 1) : ~Names(j)]

CommandNamed == Len(argv) >= 1 /\ \E i \in 1..Len(cmds) : Names(i)

\* the call returned after tokenizing and matching: the command has chains
\* and tokens follow its name
Selecting ==
  /\ Parsed
  /\ result.kind = "return"
  /\ CommandNamed
  /\ Len(TheCommand.args) >= 1
  /\ Len(argv) > 1

\* the references of the nodes of the chain that starts at head
RECURSIVE ChainNodes(_, _)
ChainNodes(h, head) ==
  IF h[head].nextCommandArg = 0 THEN <<head>>
  ELSE <<head>> \o ChainNodes(h, h[head].nextCommandArg)

\* totalNodes of chain number i of the command
totalNodes(i) == Len(ChainNodes(heap, TheCommand.args[i]))

\* the token map of the call
TokenMap == convertArgvtoMap(Tail(argv)).args

\* matchedNodes of chain number i, as the SetResolver counted it in the call
matchedNodes(i) ==
  matchCommandArgs(TheCommand, heapAtCall, TokenMap).setCmdArgsWithValueCount[TheCommand.args[i]]

Chains == 1..Len(TheCommand.args)

Contending == {i \in Chains : matchedNodes(i) > 0}

FullyMatched == {i \in Contending : matchedNodes(i) = totalNodes(i)}

\* the chain of S with the smallest totalNodes, the first registered on a tie
Smallest(S) ==
  CHOOSE i \in S : \A j \in S :
    totalNodes(i) < totalNodes(j) \/ (totalNodes(i) = totalNodes(j) /\ i <= j)

\* the nodes of a SelectedCommandArg, head first: their names and values
RECURSIVE Flatten(_)
Flatten(sel) ==
  <<[name |-> sel.name, value |-> sel.value]>>
    \o (IF sel.nextCommandArg = <<>> THEN <<>> ELSE Flatten(sel.nextCommandArg[1]))

\* the names and values of the nodes of chain number i in the registry
ChainView(h, i) ==
  LET ns == ChainNodes(h, TheCommand.args[i])
  IN [k \in 1..Len(ns) |-> [name |-> h[ns[k]].name, value |-> h[ns[k]].value]]

\* the snapshot returned holds exactly chain number i
SnapshotIsChain(i) ==
  /\ Len(result.selCmd) = 1
  /\ result.selCmd[1].command = TheCommand.command
  /\ Len(result.selCmd[1].args) = 1
  /\ Flatten(result.selCmd[1].args[1]) = ChainView(heap, i)

\* the snapshot returned holds every chain of the command, in order
SnapshotIsCommand ==
  /\ Len(result.selCmd) = 1
  /\ result.selCmd[1].command = TheCommand.command
  /\ Len(result.selCmd[1].args) = Len(TheCommand.args)
  /\ \A i \in Chains : Flatten(result.selCmd[1].args[i]) = ChainView(heap, i)

(***************************************************************************)
(* C1                                                                      *)
(***************************************************************************)
\* C1 as stated: the Selector picks the contending chain with the smallest
\* totalNodes (first registered on a tie); the outcome is Success exactly when
\* that chain is fully matched, and MissingArg when it is partially matched.
C1_AsStated ==
  (Selecting /\ Contending # {}) =>
    LET p == Smallest(Contending)
    IN /\ result.action = Success <=> matchedNodes(p) = totalNodes(p)
       /\ matchedNodes(p) # totalNodes(p) => result.action = MissingArg
       /\ result.action = Success => SnapshotIsChain(p)

\* C1 amended: the Selector picks, among the contending chains that are fully
\* matched, the one with the smallest totalNodes (first registered on a tie);
\* the outcome is Success with that chain exactly when such a chain exists,
\* and MissingArg otherwise.  A smaller contending chain that is only
\* partially matched is passed over.
C1_SmallestFullyMatchedWins ==
  Selecting =>
    /\ result.action = Success <=> FullyMatched # {}
    /\ result.action = MissingArg <=> FullyMatched = {}
    /\ FullyMatched # {} => SnapshotIsChain(Smallest(FullyMatched))

\* the smallest contending chain is partially matched and a chain that is
\* not smaller is fully matched
C1_Witness ==
  /\ Selecting
  /\ Contending # {}
  /\ matchedNodes(Smallest(Contending)) # totalNodes(Smallest(Contending))
  /\ FullyMatched # {}
  /\ result.action = Success

(***************************************************************************)
(* C2                                                                      *)
(***************************************************************************)
\* C2 as stated: when the chosen chain is only partially matched the outcome
\* is MissingArg and the snapshot holds only that chain.
C2_AsStated ==
  (Selecting /\ Contending # {} /\ FullyMatched = {}) =>
    /\ result.action = MissingArg
    /\ SnapshotIsChain(Smallest(Contending))

\* scenario B: cidr -i 10.0.0.0 on the registry of the program as built
ScenarioB ==
  /\ Parsed
  /\ config = "cli"
  /\ heapAtCall = configCommandArgs.heap
  /\ argv = <<s_cidr, sw_i, v_ip>>

\* C2 amended: when no contending chain is fully matched the outcome is
\* MissingArg and the snapshot holds every chain of the command in
\* registration order; the partially matched chain is among them with the
\* values it received (scenario B: chain cidr with an empty value, then chain
\* ip with 10.0.0.0 and an empty cb).
C2_PartialReturnsWholeCommand ==
  /\ (Selecting /\ Contending # {} /\ FullyMatched = {}) =>
       /\ result.action = MissingArg
       /\ SnapshotIsCommand
  /\ ScenarioB =>
       /\ result.action = MissingArg
       /\ Len(result.selCmd[1].args) = 2
       /\ Flatten(result.selCmd[1].args[1]) = <<[name |-> "cidr", value |-> EmptyStr]>>
       /\ Flatten(result.selCmd[1].args[2]) =
            <<[name |-> "ip", value |-> v_ip], [name |-> "cb", value |-> EmptyStr]>>

C2_Witness ==
  /\ ScenarioB
  /\ Selecting
  /\ Contending = {2}
  /\ FullyMatched = {}

(***************************************************************************)
(* C3                                                                      *)
(***************************************************************************)
\* C3: whenever the outcome is Success for a command that declares at least
\* one chain, the snapshot holds exactly one chain and every node of it has a
\* non-empty value.
C3_SuccessChainHasValues ==
  (Parsed /\ result.kind = "return" /\ result.action = Success
     /\ CommandNamed /\ Len(TheCommand.args) >= 1) =>
    /\ Len(result.selCmd) = 1
    /\ Len(result.selCmd[1].args) = 1
    /\ \A k \in 1..Len(Flatten(result.selCmd[1].args[1])) :
         Flatten(result.selCmd[1].args[1])[k].value # EmptyStr

(***************************************************************************)
(* C4                                                                      *)
(***************************************************************************)
\* C4: after any sequence of earlier parseCommandArguments calls, the outcome
\* and the snapshot of a call are those the same argv gives on the registry
\* as configured; node values set by an earlier call play no part.
C4_NoStaleState ==
  Parsed =>
    LET fresh == parseCommandArguments(cmds, Registry(config).heap, argv)
    IN /\ result.kind = fresh.kind
       /\ result.action = fresh.action
       /\ result.selCmd = fresh.selCmd
       /\ result.errCode = fresh.errCode
       /\ result.errMsg = fresh.errMsg

(***************************************************************************)
(* C5                                                                      *)
(***************************************************************************)
\* C5: for every chain, if the value of the head node is empty after the
\* token map has been processed, the chain has matchedNodes = 0 and is not in
\* contention, whatever switches of its later nodes are in the token map.
C5_Gating ==
  Selecting =>
    \A i \in Chains :
      heap[TheCommand.args[i]].value = EmptyStr =>
        /\ matchedNodes(i) = 0
        /\ i \notin Contending
        /\ ~(result.action = Success /\ SnapshotIsChain(i))

(***************************************************************************)
(* C6                                                                      *)
(***************************************************************************)
\* C6: when two chains have equal totalNodes and both are fully matched, the
\* outcome is Success and the later one is not the chain returned; the
\* earlier one is the chain returned when no fully matched chain is smaller
\* or of the same size and registered before it.
C6_TieBreak ==
  Selecting =>
    \A i, j \in FullyMatched :
      (i < j /\ totalNodes(i) = totalNodes(j)) =>
        /\ result.action = Success
        /\ ~SnapshotIsChain(j)
        /\ (\A k \in FullyMatched :
              \/ totalNodes(k) > totalNodes(i)
              \/ (totalNodes(k) = totalNodes(i) /\ k >= i)) => SnapshotIsChain(i)

C6_Witness ==
  /\ Selecting
  /\ \E i, j \in FullyMatched :
       /\ i < j
       /\ totalNodes(i) = totalNodes(j)
       /\ SnapshotIsChain(i)

(***************************************************************************)
(* C7                                                                      *)
(***************************************************************************)
\* C7 as stated: when the first token names no command the outcome is
\* MissingCommand and the result carries the token verbatim; nothing is
\* thrown and no node changes.
C7_AsStated ==
  (Parsed /\ NoCommandNamed) =>
    /\ result.kind = "return"
    /\ result.action = MissingCommand
    /\ \/ result.errMsg = argv[1]
       \/ (result.selCmd # <<>> /\ result.selCmd[1].command = argv[1])
    /\ heap = heapAtCall

\* C7 amended: when the first token names no command the call returns
\* [MissingCommand, undefined]: the result carries no selected command and
\* not the unrecognized token (the caller still has it in argv[0]); nothing
\* is tokenized or matched, so nothing is thrown and no node changes.
C7_MissingCommandCarriesNothing ==
  (Parsed /\ NoCommandNamed) =>
    /\ result.kind = "return"
    /\ result.action = MissingCommand
    /\ result.selCmd = <<>>
    /\ result.errMsg = EmptyStr
    /\ heap = heapAtCall

\* an unknown command followed by a token that the Tokenizer would refuse
C7_Witness ==
  /\ Parsed
  /\ NoCommandNamed
  /\ Len(argv) > 1
  /\ ~switchTest(argv[2])
  /\ result.action = MissingCommand

(***************************************************************************)
(* C8                                                                      *)
(***************************************************************************)
\* C8 as stated: an empty token list gives the outcome Usage with no
\* selected command.
C8_AsStated ==
  (Parsed /\ argv = <<>>) =>
    /\ result.kind = "return"
    /\ result.action = Usage
    /\ result.selCmd = <<>>

\* C8 amended: an empty token list (on a non-empty registry) gives the
\* outcome FullUsage, the member of ParsedActions that is distinct from
\* Usage, with no selected command.
C8_EmptyArgvIsFullUsage ==
  (Parsed /\ argv = <<>> /\ Len(cmds) >= 1) =>
    /\ result.kind = "return"
    /\ result.action = FullUsage
    /\ FullUsage # Usage
    /\ result.selCmd = <<>>

C8_Witness ==
  /\ Parsed
  /\ argv = <<>>
  /\ Len(cmds) >= 1
  /\ result.kind = "return"

C10_NoTokensIsMissingArg ==
  (Parsed /\ CommandNamed /\ Len(TheCommand.args) >= 1 /\ Len(argv) = 1) =>
    /\ result.kind = "return"
    /\ result.action = MissingArg
    /\ SnapshotIsCommand
    /\ heap = heapAtCall

\* the registry is as configured and the default values fill a whole chain
C10_Witness ==
  /\ Parsed
  /\ CommandNamed
  /\ Len(TheCommand.args) >= 1
  /\ Len(argv) = 1
  /\ heapAtCall = Registry(config).heap
  /\ \E i \in Chains :
       \A k \in 1..Len(ChainView(heapAtCall, i)) :
         ChainView(heapAtCall, i)[k].value # EmptyStr
  /\ result.action = MissingArg

(***************************************************************************)
(* C11                                                                     *)
(***************************************************************************)
\* C11: when tokens follow the name of a command with chains and no chain
\* of it has a matched node, the outcome is MissingArg and the snapshot holds
\* every chain of the command in registration order.
C11_NoChainMatched ==
  (Selecting /\ Contending = {}) =>
    /\ result.action = MissingArg
    /\ SnapshotIsCommand

\* no chain contends although the token map gives a value to a switch
C11_Witness ==
  /\ Selecting
  /\ Contending = {}
  /\ Len(TheCommand.args) >= 2
  /\ \E k \in DOMAIN TokenMap : TokenMap[k] # EmptyStr
  /\ result.action = MissingArg

(***************************************************************************)
(* C12                                                                     *)
(***************************************************************************)
\* the tokens that follow the command name
Tokens == Tail(argv)

\* the call went as far as the Tokenizer: the first token names a command
\* with chains and tokens follow it
Tokenizing ==
  /\ Parsed
  /\ CommandNamed
  /\ Len(TheCommand.args) >= 1
  /\ Len(argv) > 1

\* the positions of the tokens that are not switches and do not follow a
\* switch: a first token that is a value, or a value that follows a value
Orphans ==
  {k \in 1..Len(Tokens) :
     /\ ~switchTest(Tokens[k])
     /\ (k = 1 \/ ~switchTest(Tokens[k - 1]))}

FirstOrphan == CHOOSE k \in Orphans : \A j \in Orphans : k <= j

\* C12: for a command with chains, a token that is not a switch and is not
\* preceded by a switch without a value makes the call throw CMDARG_NOKEY
\* with that token as its message (the first such token); the fault is an
\* exception, never one of the outcomes returned, and without such a token
\* nothing is thrown.  Scenario E: cidr 10.0.0.0/24 throws CMDARG_NOKEY
\* carrying 10.0.0.0/24.
C12_OrphanValueThrows ==
  /\ Tokenizing =>
       /\ result.kind = "throw" <=> Orphans # {}
       /\ Orphans # {} =>
            /\ result.errCode = CMDARG_NOKEY
            /\ result.errMsg = Tokens[FirstOrphan]
            /\ result.action = ""
            /\ result.selCmd = <<>>
  /\ (Parsed /\ result.kind = "return") =>
       /\ result.errCode = ""
       /\ result.action \in {Success, MissingCommand, MissingArg, Help, Usage, FullUsage, Version}
  /\ (Parsed /\ config = "cli" /\ argv = <<s_cidr, v_cidr>>) =>
       /\ result.kind = "throw"
       /\ result.errCode = CMDARG_NOKEY
       /\ result.errMsg = v_cidr

\* the call threw at a value that follows a switch and its value
C12_Witness ==
  /\ Tokenizing
  /\ Orphans # {}
  /\ FirstOrphan > 2
  /\ switchTest(Tokens[FirstOrphan - 2])
  /\ result.kind = "throw"
  /\ result.errMsg = Tokens[FirstOrphan]

(***************************************************************************)
(* C13                                                                     *)
(***************************************************************************)
\* the Tokenizer returned a map for the tokens of the call
Tokenized == Tokenizing /\ result.kind = "return"

\* token number k is the last occurrence of its spelling
LastOccurrence(k) == \A j \in (k + 1)..Len(Tokens) : Tokens[j] # Tokens[k]

\* token number k is a switch without a value: another switch follows it or
\* it is the last token
Valueless(k) ==
  /\ switchTest(Tokens[k])
  /\ (k = Len(Tokens) \/ switchTest(Tokens[k + 1]))

\* C13: every switch token of the list is a key of the token map, and a
\* switch that is followed by another switch or is the last token is
\* recorded with the empty string (when no later occurrence of the same
\* spelling replaces it).
C13_EverySwitchIsKey ==
  Tokenized =>
    \A k \in 1..Len(Tokens) :
      /\ switchTest(Tokens[k]) => Tokens[k] \in DOMAIN TokenMap
      /\ (Valueless(k) /\ LastOccurrence(k)) =>
           /\ Tokens[k] \in DOMAIN TokenMap
           /\ TokenMap[Tokens[k]] = EmptyStr

(***************************************************************************)
(* C14                                                                     *)
(***************************************************************************)
\* the positions of the switch tokens
SwitchPositions == {k \in 1..Len(Tokens) : switchTest(Tokens[k])}

\* C14: the token map has exactly one entry per distinct switch spelling of
\* the list, and it holds the value of the last occurrence of the spelling:
\* the token that follows it, or the empty string when that occurrence has
\* no value.
C14_LastWriteWins ==
  Tokenized =>
    /\ DOMAIN TokenMap = {Tokens[k] : k \in SwitchPositions}
    /\ \A k \in SwitchPositions :
         LastOccurrence(k) =>
           /\ Tokens[k] \in DOMAIN TokenMap
           /\ TokenMap[Tokens[k]] = IF Valueless(k) THEN EmptyStr ELSE Tokens[k + 1]

(***************************************************************************)
(* C15                                                                     *)
(***************************************************************************)
\* the pattern re matches the string s: a test of the pattern that starts
\* at the beginning of s
Matches(re, s) == RegExpTest(re, 0, s).ok

\* the caller holds the outcome of a setValue call
ValueSet == pc = "setValue"

\* the candidate of the setValue call, trimmed
Candidate == trim(setCall.val)

\* C15: setValue trims the candidate and tests it against the pattern of the
\* node: when the trimmed candidate matches the pattern it is stored and true
\* is returned; when it does not match, false is returned and the value of
\* the node is what it was before the call.
C15_SetValueStoresOnMatch ==
  ValueSet =>
    IF Matches(heapAtCall[setCall.cmdArg].valuePatternRegEx, Candidate)
    THEN /\ setCall.ret
         /\ heap[setCall.cmdArg].value = Candidate
    ELSE /\ ~setCall.ret
         /\ heap[setCall.cmdArg].value = heapAtCall[setCall.cmdArg].value

(***************************************************************************)
(* C16                                                                     *)
(***************************************************************************)
\* the same setValue call made once more on the node, right after the call
\* whose outcome the caller holds
SetAgain == setValue(heap, setCall.cmdArg, setCall.val)

\* C16: two setValue calls in a row with the same valid candidate (one that
\* matches the pattern of the node) both return true, and after the second
\* the stored value is the one the first call left.
C16_SetValueIdempotent ==
  (ValueSet /\ Matches(heapAtCall[setCall.cmdArg].valuePatternRegEx, Candidate)) =>
    /\ setCall.ret
    /\ SetAgain.ret
    /\ SetAgain.heap[setCall.cmdArg].value = heap[setCall.cmdArg].value

(***************************************************************************)
(* C17                                                                     *)
(***************************************************************************)
\* the nodes of all the chains of the command
CommandNodes == UNION {{ChainNodes(heapAtCall, TheCommand.args[i])[k] :
                          k \in 1..Len(ChainNodes(heapAtCall, TheCommand.args[i]))} :
                       i \in Chains}

\* what matchCommandArg gives for node n with the token map of the call
Matched(n) == matchCommandArg(heapAtCall, n, TokenMap)

\* no spelling of node n is a key of the token map
Unaddressed(n) ==
  \A i \in 1..Len(heapAtCall[n].switches) : heapAtCall[n].switches[i] \notin DOMAIN TokenMap

\* C17: a node counts as matched exactly when its value is not empty after
\* the token map has been applied to it; so a node with a non-empty default
\* value counts although none of its spellings is in the token map, and a
\* node whose value stays empty does not count.
C17_MatchedIffValue ==
  Tokenized =>
    \A n \in CommandNodes :
      /\ Matched(n).found <=> Matched(n).heap[n].value # EmptyStr
      /\ (Unaddressed(n) /\ heapAtCall[n].value # EmptyStr) => Matched(n).found
      /\ (Unaddressed(n) /\ heapAtCall[n].value = EmptyStr) => ~Matched(n).found

(***************************************************************************)
(* C18                                                                     *)
(***************************************************************************)
\* every value the token map holds for a spelling of node n is empty once
\* trimmed, and at least one spelling of n is a key of the map
OnlyEmptyValues(n) ==
  /\ ~Unaddressed(n)
  /\ \A i \in 1..Len(heapAtCall[n].switches) :
       heapAtCall[n].switches[i] \in DOMAIN TokenMap =>
         trim(TokenMap[heapAtCall[n].switches[i]]) = EmptyStr

\* the nodes that the call visited: the nodes of the chains whose first
\* node counted as matched
VisitedNodes ==
  UNION {{ChainNodes(heapAtCall, TheCommand.args[i])[k] :
            k \in 1..Len(ChainNodes(heapAtCall, TheCommand.args[i]))} :
         i \in Contending}
    \cup {TheCommand.args[i] : i \in Chains}

\* C18: a value that is the empty string once trimmed never changes the
\* value of a node: a setValue call with an empty or whitespace-only
\* candidate leaves the value as it was, and so does a call of
\* parseCommandArguments whose tokens give the switches of a node only empty
\* or whitespace-only values.
C18_EmptyValuePreserves ==
  /\ (ValueSet /\ Candidate = EmptyStr) =>
       heap[setCall.cmdArg].value = heapAtCall[setCall.cmdArg].value
  /\ Tokenized =>
       \A n \in VisitedNodes :
         OnlyEmptyValues(n) => heap[n].value = heapAtCall[n].value

(***************************************************************************)
(* C19                                                                     *)
(***************************************************************************)
\* the node of the registry that a SelectedCommandArg was copied from (the
\* names of the nodes of a registry are distinct)
NodeOf(sel) == CHOOSE n \in 1..Len(heap) : heap[n].name = sel.name

\* the names and values of the nodes of the chain that starts at head, as
\* the CommandArg objects h hold them
NodeView(h, head) ==
  [k \in 1..Len(ChainNodes(h, head)) |->
     [name |-> h[ChainNodes(h, head)[k]].name, value |-> h[ChainNodes(h, head)[k]].value]]

\* every chain of the SelectedCommand sc shows the values that the
\* CommandArg objects h hold
ShowsValuesOf(sc, h) ==
  \A i \in 1..Len(sc.args) :
    Flatten(sc.args[i]) = NodeView(h, NodeOf(sc.args[i]))

\* C19: the node values of a SelectedCommand are those the nodes of the
\* schema hold at the moment parseCommandArguments returns it, and a
\* SelectedCommand that the caller kept still shows the values of that
\* moment after any later setValue or parseCommandArguments call on the
\* schema.
C19_SnapshotIsACopy ==
  /\ (Parsed /\ result.kind = "return" /\ result.selCmd # <<>>) =>
       ShowsValuesOf(result.selCmd[1], heap)
  /\ kept # NoKept => ShowsValuesOf(kept[1].selCmd, kept[1].heap)

\* a later call has just changed the value of a node that the kept
\* SelectedCommand shows
C19_Witness ==
  /\ kept # NoKept
  /\ pc \in {"setValue", "parseCommandArguments"}
  /\ \E n \in 1..Len(heap) :
       /\ heap[n].value # heapAtCall[n].value
       /\ heap[n].value # kept[1].heap[n].value
       /\ \E i \in 1..Len(kept[1].selCmd.args) :
            \E k \in 1..Len(Flatten(kept[1].selCmd.args[i])) :
              /\ Flatten(kept[1].selCmd.args[i])[k].name = heap[n].name
              /\ Flatten(kept[1].selCmd.args[i])[k].value # EmptyStr
  /\ ~ShowsValuesOf(kept[1].selCmd, heap)

(***************************************************************************)
(* C20                                                                     *)
(***************************************************************************)
\* the CommandArg objects h1 and h2 make the same schema: the same nodes
\* with the same names, switches, patterns, values and links
SameSchema(h1, h2) ==
  /\ Len(h1) = Len(h2)
  /\ \A n \in 1..Len(h1) : [h1[n] EXCEPT !.lastIndex = 0] = [h2[n] EXCEPT !.lastIndex = 0]

\* the same parseCommandArguments call made once more, right after the call
\* whose outcome the caller holds
ResolveAgain == parseCommandArguments(cmds, heap, argv)

\* the names of the first nodes of the chains of a result
ChainsOf(r) ==
  IF r.selCmd = <<>> THEN <<>>
  ELSE [i \in 1..Len(r.selCmd[1].args) |-> r.selCmd[1].args[i].name]

\* C20: two resolutions that start from the same schema state with the same
\* token list return the same outcome and select the same chain.  The two
\* resolutions are the call whose outcome the caller holds and the same call
\* repeated at once, whenever the first call left the schema as it found it.
C20_Deterministic ==
  (Parsed /\ SameSchema(heap, heapAtCall)) =>
    /\ ResolveAgain.kind = result.kind
    /\ ResolveAgain.action = result.action
    /\ ResolveAgain.errCode = result.errCode
    /\ ChainsOf(ResolveAgain) = ChainsOf(result)

(***************************************************************************)
(* C21                                                                     *)
(***************************************************************************)
\* the caller holds the outcome of a construction call
Built == pc = "built"

\* the name handed to new CommandImpl, trimmed
NameGiven == trim(built.command)

\* s matches ^[a-zA-Z0-9]+$
AlphaNumeric(s) ==
  /\ s # EmptyStr
  /\ \A i \in 1..Len(s) : s[i] \in Letter \cup Digit

\* C21: new CommandImpl throws a configuration error (PARAM_MISSING or
\* PARAM_INVALID) and adds no command when the name is empty or blank once
\* trimmed, starts with a dash, or does not match ^[a-zA-Z0-9]+$; otherwise
\* it builds the command with the trimmed name in lower case.  Every command
\* of the registry has a non-empty lower-case name that matches the pattern,
\* and no construction call changes the name of a command built before it.
C21_CommandName ==
  /\ (Built /\ built.op = "CommandImpl") =>
       IF AlphaNumeric(NameGiven)
       THEN /\ built.err = ""
            /\ cmds = Append(built.cmds, [command |-> toLowerCase(NameGiven), args |-> <<>>])
       ELSE /\ built.err \in {PARAM_MISSING, PARAM_INVALID}
            /\ NameGiven = EmptyStr <=> built.err = PARAM_MISSING
            /\ cmds = built.cmds
  /\ \A i \in 1..Len(cmds) :
       /\ AlphaNumeric(cmds[i].command)
       /\ toLowerCase(cmds[i].command) = cmds[i].command
  /\ Built =>
       /\ Len(cmds) >= Len(built.cmds)
       /\ \A i \in 1..Len(built.cmds) : cmds[i].command = built.cmds[i].command

\* a name that starts with a dash is refused while the registry holds a
\* command that was built from a name with capitals
C21_Witness ==
  /\ Built
  /\ built.op = "CommandImpl"
  /\ NameGiven # EmptyStr
  /\ NameGiven[1] = "-"
  /\ built.err = PARAM_INVALID
  /\ Len(cmds) = 1
  /\ cmds[1].command = s_cmd
  /\ Len(cmds[1].args) >= 1

(***************************************************************************)
(* C22                                                                     *)
(***************************************************************************)
\* the caller holds the outcome of an addArgument call
Added == Built /\ built.op \in {"Command.addArgument", "CommandArg.addArgument"}

\* the spellings handed to addArgument, trimmed
SwitchesGiven == [i \in 1..Len(built.switches) |-> trim(built.switches[i])]

\* s begins with one or two dashes followed by a letter
BeginsAsSwitch(s) ==
  \/ Len(s) >= 2 /\ s[1] = "-" /\ s[2] \in Letter
  \/ Len(s) >= 3 /\ s[1] = "-" /\ s[2] = "-" /\ s[3] \in Letter

\* s matches ^-{1,2}[A-Za-z][A-Za-z0-9-]*$
WholeSwitch(s) ==
  /\ BeginsAsSwitch(s)
  /\ \A i \in 2..Len(s) : s[i] \in Letter \cup Digit \cup {"-"}

\* the addArgument call threw a configuration error and registered nothing
Refused ==
  /\ built.err \in {PARAM_MISSING, PARAM_INVALID}
  /\ cmds = built.cmds
  /\ heap = built.heap

\* the addArgument call registered a new CommandArg
Registered ==
  /\ built.err = ""
  /\ Len(heap) = Len(built.heap) + 1
  /\ IF built.op = "Command.addArgument"
     THEN /\ cmds = [built.cmds EXCEPT ![built.on].args = Append(@, Len(heap))]
          /\ SubSeq(heap, 1, Len(built.heap)) = built.heap
     ELSE /\ cmds = built.cmds
          /\ SubSeq(heap, 1, Len(built.heap)) =
               [built.heap EXCEPT ![built.on].nextCommandArg = Len(heap)]

StrictlySorted(sw) == \A i \in 1..(Len(sw) - 1) : StrLess(sw[i], sw[i + 1])

RECURSIVE Follow(_, _)
Follow(id, fuel) ==
  IF id = 0 \/ fuel = 0 THEN <<>>
  ELSE <<id>> \o Follow(heap[id].nextCommandArg, fuel - 1)

\* one step more than there are objects: a walk that long has met a cycle
LinkedFrom(id) == Follow(id, Len(heap) + 1)

\* the heads of the chains: the entries of the args of the commands
Heads == {h \in (1..Len(cmds)) \X (1..MaxNodes) : h[2] <= Len(cmds[h[1]].args)}

HeadOf(h) == cmds[h[1]].args[h[2]]

Range(s) == {s[i] : i \in 1..Len(s)}

\* C26: after any sequence of Command.addArgument and CommandArg.addArgument
\* calls every chain is a finite linked sequence of at least one node in
\* which no node occurs twice, no node is reachable from the heads of two
\* different chains, and the chains of a command are in the order in which
\* Command.addArgument was called (references are handed out in the order of
\* construction, and each call appends to the chains that were there).
C26_ChainsAreChains ==
  /\ \A h \in Heads :
       /\ Len(LinkedFrom(HeadOf(h))) >= 1
       /\ Len(LinkedFrom(HeadOf(h))) <= Len(heap)
       /\ \A i, j \in 1..Len(LinkedFrom(HeadOf(h))) :
            i # j => LinkedFrom(HeadOf(h))[i] # LinkedFrom(HeadOf(h))[j]
  /\ \A g, h \in Heads :
       g # h => Range(LinkedFrom(HeadOf(g))) \cap Range(LinkedFrom(HeadOf(h))) = {}
  /\ \A ci \in 1..Len(cmds) :
       \A k, l \in 1..Len(cmds[ci].args) :
         k < l => cmds[ci].args[k] < cmds[ci].args[l]
  /\ (Added /\ built.op = "Command.addArgument" /\ built.err = "") =>
       cmds[built.on].args = Append(built.cmds[built.on].args, Len(heap))

\* a command has two chains, the first of them with a follow-on node
C26_Witness ==
  /\ Added
  /\ Len(cmds) >= 1
  /\ Len(cmds[1].args) = 2
  /\ Len(LinkedFrom(cmds[1].args[1])) = 2
  /\ Len(LinkedFrom(cmds[1].args[2])) = 1

(***************************************************************************)
(* C24                                                                     *)
(***************************************************************************)
\* resolve returned Success for the command cidr of getCIDRCommandLineArgs
SuccessForCIDR ==
  /\ config = "cli"
  /\ pc \in {"parseCommandArguments", "execCIDR"}
  /\ result.kind = "return"
  /\ result.action = Success
  /\ result.selCmd # <<>>
  /\ result.selCmd[1].command = s_cidr

\* the handler has run on the SelectedCommand
Handled == pc = "execCIDR"

\* the optional string q is a string of at least one character
NonEmptyString(q) == q # <<>> /\ q[1] # EmptyStr

\* C24: for every argv on which resolve returns Success for the command cidr
\* (chains [cidr] and [ip -> cb]) the preconditions of execCIDR hold: the
\* snapshot has exactly one chain, its first node is named 'cidr' or 'ip',
\* for 'ip' the next node exists, and the IP and CIDR-block strings handed to
\* the numeric library are both non-empty; the handler raises no
\* PARAM_INVALID (and no other error of its own) after a Success.
C24_HandlerPreconditions ==
  /\ SuccessForCIDR =>
       /\ Len(result.selCmd[1].args) = 1
       /\ result.selCmd[1].args[1].name \in {"cidr", "ip"}
       /\ result.selCmd[1].args[1].name = "ip" =>
            result.selCmd[1].args[1].nextCommandArg # <<>>
  /\ Handled =>
       /\ SuccessForCIDR
       /\ exec.err = ""
       /\ NonEmptyString(exec.queryIP)
       /\ NonEmptyString(exec.queryCB)

\* the handler ran on the chain ip -> cb, for a command line that names the
\* command in capitals and gives cb before ip
C24_Witness ==
  /\ Handled
  /\ result.selCmd[1].args[1].name = "ip"
  /\ exec = Executed(<<v_ip>>, <<v_cb>>)
  /\ argv = <<s_CIDR, sw_cb, v_cb, sw_i, v_ip>>

(***************************************************************************)
(* C25                                                                     *)
(***************************************************************************)
\* resolve returned Success with the snapshot of the winning chain
Succeeded ==
  /\ Selecting
  /\ result.action = Success
  /\ result.selCmd # <<>>
  /\ Len(result.selCmd[1].args) = 1

\* the nodes the snapshot of the winning chain shows, head first
SelectedChain == Flatten(result.selCmd[1].args[1])

\* the value the node named name was constructed with
DefaultOf(name) ==
  Registry(config).heap[CHOOSE n \in 1..Len(heap) : heap[n].name = name].value

\* the pattern of the node named name
PatternOf(name) ==
  heap[CHOOSE n \in 1..Len(heap) : heap[n].name = name].valuePatternRegEx

\* the token map of the call gives node n a value that is not the empty string
GivenValue(n) ==
  \E i \in 1..Len(heapAtCall[n].switches) :
    /\ heapAtCall[n].switches[i] \in DOMAIN TokenMap
    /\ TokenMap[heapAtCall[n].switches[i]] # EmptyStr

\* the nodes of chain number i of the command
NodesOfChain(i) ==
  {ChainNodes(heapAtCall, TheCommand.args[i])[k] :
     k \in 1..Len(ChainNodes(heapAtCall, TheCommand.args[i]))}

Unvalued(a) == [a EXCEPT !.value = EmptyStr]

\* C27: a resolve call changes nothing in the registry except value fields
\* of nodes of the matched command: the set and order of commands, each
\* command's chains and their order, every node's name, switches, pattern
\* (the RegExp object with the lastIndex it carries) and next link, and all
\* node values of commands other than the matched one are the same after
\* the call as before it.
C27_OnlyValuesChange ==
  Parsed =>
    /\ cmds = Registry(config).cmds
    /\ Len(heap) = Len(heapAtCall)
    /\ \A n \in 1..Len(heap) :
         /\ Unvalued(heap[n]) = Unvalued(heapAtCall[n])
         /\ heap[n].value # heapAtCall[n].value =>
              /\ CommandNamed
              /\ n \in CommandNodes

(***************************************************************************)
(* C28                                                                     *)
(***************************************************************************)
\* resolve aborted with the parse fault CMDARG_NOKEY
NoKeyFault ==
  /\ Parsed
  /\ result.kind = "throw"
  /\ result.errCode = CMDARG_NOKEY

\* a switch with a value that its node accepts comes before the token
\* without a key
ValidPairPrecedes ==
  \E k \in 1..(Len(Tokens) - 2) :
    /\ k + 1 < FirstOrphan
    /\ switchTest(Tokens[k])
    /\ ~switchTest(Tokens[k + 1])
    /\ \E n \in CommandNodes :
         /\ \E i \in 1..Len(heapAtCall[n].switches) : heapAtCall[n].switches[i] = Tokens[k]
         /\ setValue(heapAtCall, n, Tokens[k + 1]).ret
         /\ heapAtCall[n].value # trim(Tokens[k + 1])

\* C28: when resolve aborts with the parse fault CMDARG_NOKEY, no node value
\* of the schema has been changed by that call (nor anything else in it),
\* even when valid switch/value pairs precede the offending token in argv:
\* the whole token list is tokenized before any node is matched.
C28_FaultChangesNothing ==
  NoKeyFault => heap = heapAtCall

\* the call aborted although a pair that would have changed a node precedes
\* the offending token
C28_Witness ==
  /\ NoKeyFault
  /\ ValidPairPrecedes

(***************************************************************************)
(* C29                                                                     *)
(***************************************************************************)
\* the token map gives spelling number i of node n a value that is not
\* empty once trimmed and that the pattern of n accepts
ValidFor(n, i) ==
  /\ heapAtCall[n].switches[i] \in DOMAIN TokenMap
  /\ trim(TokenMap[heapAtCall[n].switches[i]]) # EmptyStr
  /\ Matches(heapAtCall[n].valuePatternRegEx, trim(TokenMap[heapAtCall[n].switches[i]]))

\* node n is the head of a chain of the command and argv supplies valid
\* non-empty values for spellings number i and j of it
TwoSpellings(n, i, j) ==
  /\ Tokenized
  /\ \E c \in Chains : TheCommand.args[c] = n
  /\ i < j
  /\ j <= Len(heapAtCall[n].switches)
  /\ ValidFor(n, i)
  /\ ValidFor(n, j)
  /\ \A k \in (j + 1)..Len(heapAtCall[n].switches) : ~ValidFor(n, k)

\* C29: when argv supplies valid non-empty values for two different
\* spellings of the same node, the node's resulting value is the value given
\* to the spelling that comes last in the node's sorted spelling list,
\* whatever the order of the two spellings on the command line.
C29_LastSpellingWins ==
  \A n \in 1..Len(heapAtCall) : \A i, j \in 1..2 :
    TwoSpellings(n, i, j) =>
      heap[n].value = trim(TokenMap[heapAtCall[n].switches[j]])

(***************************************************************************)
(* C30                                                                     *)
(***************************************************************************)
\* node n was declared without a value pattern: addArgument gave it the
\* accept-anything pattern of its own
DefaultPattern(n) == heap[n].valuePatternRegEx.source = ".*" /\ heap[n].valuePatternRegEx.global

\* C30: a node declared without a value pattern gets the default
\* accept-anything pattern (.*), and for such a node every setValue call
\* returns true and stores the trimmed candidate, whatever candidates earlier
\* setValue calls on that node were given.
C30_DefaultPatternAcceptsAll ==
  (ValueSet /\ DefaultPattern(setCall.cmdArg)) =>
    /\ setCall.ret
    /\ heap[setCall.cmdArg].value = Candidate

====
